---- MODULE Spec2Model ----
(***************************************************************************)
(* A model of the theme renderer of src/codex.js (class Codex): the        *)
(* Template Store (handlebars.templates), the partials view, the active    *)
(* Translator, the decorator list, the assembler requests in flight and    *)
(* the rendering operations.                                               *)
(*                                                                         *)
(* JavaScript runs every callback to completion, so each handler is one    *)
(* atomic action; the interleaving is the order in which the assembler     *)
(* answers the requests it was given.                                      *)
(***************************************************************************)
EXTENDS Naturals, Sequences, FiniteSets, TLC

VARIABLES
    creation,      \* the createInstance call that built the instance, if any
    templates,     \* handlebars.templates: logical path -> compiled template
    partialsRef,   \* which object handlebars.partials refers to
    translator,    \* self.translator
    renderContext, \* instance.renderContext
    decorators,    \* self.decorators
    pending,       \* per assembler request of a direct loadTemplates/loadTranslations
                   \* call, how many of it await their answer
    theme,         \* the loadTheme call in progress (Async.parallel / Async.map state)
    loaded,        \* history: paths whose loadTemplates callback got no error
    everStored,    \* history: paths that ever had a Store entry
    shadowed,      \* history: paths a loadTemplates batch carried another template for
                   \* than the one already stored
    settings,      \* this.settings
    themeSettings, \* this.themeSettings
    lastOut        \* what the latest step returned, when it was a render, renderTheme
                   \* or helper call, or passed to the callback of loadTemplates

vars == <<creation, templates, partialsRef, translator, renderContext,
          decorators, pending, theme, loaded, everStored, shadowed,
          settings, themeSettings, lastOut>>

----------------------------------------------------------------------------
(* Bounds of the model *)

\* direct loadTemplates / loadTranslations requests awaiting the assembler
MaxPending == 2
\* decorators registered over the lifetime of the instance
MaxDecorators == 2

----------------------------------------------------------------------------
(* Values *)

\* ordinary logical template paths (own keys of the Store object)
Paths == {"a", "b"}
\* raw template sources the assembler may hand back for a path
Contents == {"v1", "v2"}
\* errors the assembler may report
Errors == {"e1", "e2"}
NoError == "null"
\* Accept-Language values and the locale tables the assembler may return
Languages == {"en", "fr"}
TranslationTables == {{"en"}}
DefaultLocale == "en"

\* the empty object {}
EmptyObj == [k \in {} |-> "-"]

\* _.extend({}, a, b): b's value wins on every key of b
Extend(a, b) ==
    [k \in DOMAIN a \cup DOMAIN b |-> IF k \in DOMAIN b THEN b[k] ELSE a[k]]

NullTranslator == [tag |-> "null"]

\* Translator.create(acceptLanguage, translations)
TranslatorCreate(acceptLanguage, translations) ==
    [tag |-> "translator", acceptLanguage |-> acceptLanguage,
     translations |-> translations]

\* translator.getLocale(): the best match, the default locale when none matches
GetLocale(t) ==
    IF t.acceptLanguage \in t.translations THEN t.acceptLanguage ELSE DefaultLocale

----------------------------------------------------------------------------
(* Template compilation *)

\* handlebars.precompile(content, handlebarsOptions): the portable representation
Precompile(content) == [precompiled |-> content]

\* the processor handed to the assembler: precompiles every template of a batch
TemplateProcessor(raw) == [p \in DOMAIN raw |-> Precompile(raw[p])]

\* eval('template = ' + precompiled); handlebars.template(template)
Template(precompiled) == [fn |-> precompiled.precompiled]

\* handlebars.compile(content, handlebarsOptions)
Compile(content) == [fn |-> content]

\* what the assembler may gather for a top-level path: the path itself and the
\* partials it includes, each with some raw source
RawBatches(path) ==
    UNION {[S -> Contents] : S \in {T \in SUBSET Paths : path \in T}}

\* the mutant of InsertBatch: a batch entry replaces the one already stored
InsertBatchOverwrite(store, batch) ==
    [p \in DOMAIN store \cup DOMAIN batch |->
        IF p \in DOMAIN batch THEN Template(batch[p]) ELSE store[p]]

\* the body of loadTemplates' callback on success: insert what is not there yet
InsertBatch(store, batch) ==
    [p \in DOMAIN store \cup DOMAIN batch |->
        IF p \in DOMAIN store THEN store[p] ELSE Template(batch[p])]

\* loadTemplatesSync: every given template is compiled and assigned
AssignCompiled(store, raw) ==
    [p \in DOMAIN store \cup DOMAIN raw |->
        IF p \in DOMAIN raw THEN Compile(raw[p]) ELSE store[p]]

\* handlebars.partials: the engine's own empty object until a load aliases it
Partials == IF partialsRef = "templates" THEN templates ELSE EmptyObj

----------------------------------------------------------------------------
(* Rendering.  A rendered string is a sequence of tokens: the token the    *)
(* compiled template produces from the context it is invoked with, then    *)
(* whatever the decorators add.                                            *)

\* render inputs
Contexts == {EmptyObj, ("x" :> "cx" @@ "y" :> "cy")}
RemoteDatas == {EmptyObj, ("x" :> "rx" @@ "z" :> "rz")}
Decorators == {"A", "B"}

\* templatePath arguments of renderTheme: none at all, one path, a list of paths
NoPath == [kind |-> "none"]
SinglePath(p) == [kind |-> "single", path |-> p]
PathList(ps) == [kind |-> "list", paths |-> ps]
TemplatePaths ==
    {NoPath} \cup {SinglePath(p) : p \in Paths}
    \cup {PathList(ps) : ps \in {<<>>, <<"a">>, <<"a", "b">>}}

\* the property key a non-array templatePath is looked up under
PathKey(tp) == IF tp.kind = "single" THEN tp.path ELSE "undefined"

\* the compiled template function applied to a context
Invoke(template, context) == <<[tpl |-> template.fn, ctx |-> context]>>

\* a decorator s => s + d
ApplyDecorator(d, s) == Append(s, [lit |-> d])

\* the mutant of Decorate: the decorators are applied last-registered first
RECURSIVE DecorateReversed(_, _)
DecorateReversed(ds, s) ==
    IF ds = <<>> THEN s
    ELSE ApplyDecorator(Head(ds), DecorateReversed(Tail(ds), s))

\* _.each(this.decorators, ...): output = decorator(output), in array order
RECURSIVE Decorate(_, _)
Decorate(ds, s) ==
    IF ds = <<>> THEN s
    ELSE Decorate(Tail(ds), ApplyDecorator(Head(ds), s))

Thrown == [kind |-> "throw", error |-> "TypeError"]
Str(s) == [kind |-> "string", str |-> s]

\* the context render hands to the template: context.template and, with a
\* translator, context.locale_name are set on the caller's object (every
\* call here passes a context object, so context || {} is the context)
InjectContext(path, context) ==
    LET c1 == Extend(context, "template" :> path)
    IN  IF translator # NullTranslator
        THEN Extend(c1, "locale_name" :> GetLocale(translator))
        ELSE c1

\* the mutant of Render: an absent template renders as the empty string
RenderLenient(path, context) ==
    LET ctx == InjectContext(path, context)
    IN  IF path \notin DOMAIN templates
        THEN [value |-> Str(<<>>), context |-> ctx]
        ELSE [value |-> Str(Decorate(decorators, Invoke(templates[path], ctx))),
              context |-> ctx]

\* render(path, context): the value returned (or the throw of calling an absent
\* template) and the caller's context object as render leaves it
Render(path, context) ==
    LET ctx == InjectContext(path, context)
    IN  IF path \notin DOMAIN templates
        THEN [value |-> Thrown, context |-> ctx]
        ELSE [value |-> Str(Decorate(decorators, Invoke(templates[path], ctx))),
              context |-> ctx]

\* templatePath.reduce((table, file) => { table[file] = this.render(file, data.context) ... }, {})
RECURSIVE RenderList(_, _, _)
RenderList(files, context, table) ==
    IF files = <<>> THEN [kind |-> "mapping", map |-> table]
    ELSE LET r == Render(Head(files), context)
         IN  IF r.value.kind = "throw" THEN Thrown
             ELSE RenderList(Tail(files), r.context,
                             Extend(table, Head(files) :> r.value))

\* the mutant of ThemeContext: the page context wins over the remote data
ThemeContextPageWins(data) ==
    IF data.remote THEN Extend(Extend(EmptyObj, data.remote_data), data.context)
    ELSE data.context

\* the context renderTheme renders with
ThemeContext(data) ==
    IF data.remote THEN Extend(Extend(EmptyObj, data.context), data.remote_data)
    ELSE data.context

\* the mutant of RenderTheme: the rendered html is returned without the
\* {data, content} wrapping of a remote request
RenderThemeNoWrap(templatePath, data) ==
    IF data.remote \/ templatePath.kind = "list"
    THEN LET context == ThemeContext(data) IN
         IF templatePath.kind # "none"
         THEN IF templatePath.kind = "list"
              THEN RenderList(templatePath.paths, context, EmptyObj)
              ELSE Render(templatePath.path, context).value
         ELSE [kind |-> "object", obj |-> [data |-> data.remote_data]]
    ELSE Render(PathKey(templatePath), data.context).value

\* renderTheme(templatePath, data)
RenderTheme(templatePath, data) ==
    IF data.remote \/ templatePath.kind = "list"
    THEN LET context == ThemeContext(data) IN
         IF templatePath.kind # "none"
         THEN LET html == IF templatePath.kind = "list"
                          THEN RenderList(templatePath.paths, context, EmptyObj)
                          ELSE Render(templatePath.path, context).value
              IN  IF html.kind = "throw" THEN Thrown
                  ELSE IF data.remote
                       THEN [kind |-> "object",
                             obj |-> [data |-> data.remote_data, content |-> html]]
                       ELSE html
         ELSE [kind |-> "object", obj |-> [data |-> data.remote_data]]
    ELSE Render(PathKey(templatePath), data.context).value

----------------------------------------------------------------------------
(* cdnify *)

\* A string is the sequence of its tokens: "/" and ":" are tokens of their own,
\* every other token is a run of characters without a slash and a colon.
\* '' is the empty sequence, which is falsy

\* parts.join('/')
RECURSIVE Join(_)
Join(parts) ==
    IF Len(parts) = 1 THEN parts[1]
    ELSE parts[1] \o <<"/">> \o Join(Tail(parts))

CdnUrl == <<"https", ":", "/", "/", "cdn.example">>
ImgUrl == <<"https", ":", "/", "/", "img.example">>

\* the settings the constructor may be given; an unset key reads as falsy
SettingsSet ==
    [cdn_url : {<<>>, CdnUrl},
     theme_version_id : {<<>>, <<"v1">>},
     theme_session_id : {<<>>, <<"s1">>}]
\* settings || {}
NoSettings ==
    [cdn_url |-> <<>>, theme_version_id |-> <<>>, theme_session_id |-> <<>>]

\* the themeSettings the constructor may be given: without cdn, with an empty
\* cdn object, with the endpoint "img"
ThemeSettingsSet ==
    {EmptyObj, "cdn" :> EmptyObj, "cdn" :> (<<"img">> :> ImgUrl)}
\* themeSettings || {}
NoThemeSettings == EmptyObj

\* the path argument: a string, or a Handlebars.SafeString holding one
PlainString(s) == [kind |-> "string", string |-> s]
SafeString(s) == [kind |-> "SafeString", string |-> s]

\* the paths cdnify is called with
CdnPaths ==
    {<<>>,
     <<"http", ":", "/", "/", "x", "/", "a">>,
     <<"https", ":", "/", "/", "x", "/", "a">>,
     <<"/", "/", "x", "/", "a">>,
     <<"/", "assets", "/", "img.png">>,
     <<"assets", "/", "img.png">>,
     <<"/", "img.png">>,
     <<"img.png">>,
     <<"webdav", ":", "/", "foo">>,
     <<"webdav", ":", "foo">>,
     <<"webdav", ":", "/", "/", "foo">>,
     <<"webdav", ":", "/", "a", ":", "b">>,
     <<"img", ":", "/", "a.png">>,
     <<"img", ":", "a.png">>,
     <<"img", ":", "/", "a", ":", "b">>,
     <<"other", ":", "/", "a">>,
     <<"other", ":", "a">>,
     <<"other", ":">>,
     <<"/", "a", ":", "b">>}
CdnArgs == {PlainString(s) : s \in CdnPaths} \cup {SafeString(s) : s \in CdnPaths}

\* /^(?:https?:)?\/\//.test(path)
IsAbsoluteUrl(path) ==
    \/ Len(path) >= 2 /\ path[1] = "/" /\ path[2] = "/"
    \/ /\ Len(path) >= 4
       /\ path[1] \in {"http", "https"}
       /\ path[2] = ":" /\ path[3] = "/" /\ path[4] = "/"

\* protocolMatch = /(.*!?:)/ is not anchored and .* is greedy: it matches a
\* path that holds a colon, and match[0] runs from the start to the last colon
Colons(path) == {i \in 1..Len(path) : path[i] = ":"}
ProtocolMatch(path) ==
    SubSeq(path, 1, CHOOSE i \in Colons(path) : \A j \in Colons(path) : j <= i)

\* path.slice(n, path.length)
Slice(path, n) == SubSeq(path, n + 1, Len(path))

\* if (path[0] === '/') { path = path.slice(1, path.length); }
DropSlash(path) ==
    IF path # <<>> /\ path[1] = "/" THEN Slice(path, 1) ELSE path

\* if (path[0] !== '/') { path = '/' + path; }
LeadSlash(path) ==
    IF path = <<>> \/ path[1] # "/" THEN <<"/">> \o path ELSE path

\* the mutant of StripAssets: the /assets/ prefix is kept
StripAssetsNever(path) == path

\* if (path.substr(0, 8) === '/assets/') { path = path.substr(8, path.length); }
StripAssets(path) ==
    IF Len(path) >= 3 /\ SubSeq(path, 1, 3) = <<"/", "assets", "/">>
    THEN Slice(path, 3)
    ELSE path

\* the branch of cdnify for a path protocolMatch matches
CdnifyProtocol(path) ==
    LET cdnUrl == settings.cdn_url
        match == ProtocolMatch(path)
        rest == DropSlash(Slice(path, Len(match)))
        endpointKey == SubSeq(match, 1, Len(match) - 1)
    IN  IF match = <<"webdav", ":">>
        THEN Join(<<cdnUrl, <<"content">>, rest>>)
        ELSE IF /\ "cdn" \in DOMAIN themeSettings
                /\ endpointKey \in DOMAIN themeSettings["cdn"]
             THEN IF cdnUrl # <<>>
                  THEN Join(<<themeSettings["cdn"][endpointKey], rest>>)
                  ELSE Join(<<<<"/", "assets", "/", "cdn">>, endpointKey, rest>>)
             ELSE LeadSlash(rest)

\* cdnify(path)
Cdnify(arg) ==
    LET cdnUrl == settings.cdn_url
        versionId == settings.theme_version_id
        sessionId == settings.theme_session_id
        path == arg.string
    IN  IF path = <<>> THEN <<>>
        ELSE IF IsAbsoluteUrl(path) THEN path
        ELSE IF Colons(path) # {} THEN CdnifyProtocol(path)
        ELSE LET path2 == LeadSlash(path) IN
             IF versionId = <<>> THEN path2
             ELSE IF sessionId # <<>>
                  THEN Join(<<cdnUrl, <<"stencil">>, versionId, <<"e">>, sessionId,
                              StripAssets(path2)>>)
                  ELSE Join(<<cdnUrl, <<"stencil">>, versionId, StripAssets(path2)>>)

----------------------------------------------------------------------------
(* Construction *)

Undefined == [tag |-> "undefined"]
\* no render call has just returned
NoCall == [op |-> "none"]
\* the translations argument of a callback that reports an error
NoTranslations == {}

\* the data createInstance may be given
CreateDatas ==
    {[acceptLanguage |-> "fr", context |-> ("x" :> "cx")],
     [acceptLanguage |-> "en", context |-> EmptyObj]}

\* new Promise(...): a settled promise ignores every later resolve and reject
Reject(c, error) ==
    IF c.state = "pending"
    THEN [state |-> "rejected", data |-> c.data, reported |-> c.reported,
          error |-> error]
    ELSE c
Resolve(c, translations, instance) ==
    IF c.state = "pending"
    THEN [state |-> "fulfilled", data |-> c.data, reported |-> c.reported,
          translations |-> translations, instance |-> instance]
    ELSE c

\* the instance the callback of createInstance builds
NewInstance(data, translations) ==
    [translator |-> TranslatorCreate(data.acceptLanguage, translations),
     renderContext |-> data.context,
     templates |-> EmptyObj,
     decorators |-> <<>>]

\* the mutant of CreateInstanceCallback: the error is not passed to reject
CreateInstanceCallbackNoReject(c, error, translations) ==
    Resolve(c, translations, NewInstance(c.data, translations))

\* the callback createInstance gives to assembler.getTranslations: reject on
\* error, and, with no return after it, build the instance and resolve.
\* c.reported is the error the assembler reported ("null": none).  Should
\* Translator.create throw on the missing translations, the callback ends after
\* the reject, which leaves the promise as the resolve of a settled one does
CreateInstanceCallback(c, error, translations) ==
    LET c1 == IF error # NoError THEN Reject(c, error) ELSE c
    IN  Resolve(c1, translations, NewInstance(c.data, translations))

\* the instance exists: built by the constructor, or by a fulfilled createInstance
Alive == creation.state \in {"none", "fulfilled"}

\* the requests a direct call can have at the assembler
TemplateRequests == {[kind |-> "templates", arg |-> path] : path \in Paths}
TranslationRequests ==
    {[kind |-> "translations", arg |-> acceptLanguage] : acceptLanguage \in Languages}
Requests == TemplateRequests \cup TranslationRequests

\* how many requests of direct calls await the assembler's answer
RECURSIVE CountIn(_, _)
CountIn(bag, rs) ==
    IF rs = {} THEN 0
    ELSE LET r == CHOOSE x \in rs : TRUE
         IN  bag[r] + CountIn(bag, rs \ {r})
InFlight == CountIn(pending, Requests)

\* a request is handed to the assembler / answered by it
Sent(bag, r) == [bag EXCEPT ![r] = @ + 1]
Answered(bag, r) == [bag EXCEPT ![r] = @ - 1]

IdleTheme ==
    [active |-> FALSE, paths |-> <<>>, acceptLanguage |-> "en", trans |-> "idle",
     tpl |-> <<>>, mapCb |-> "none", done |-> "none", calls |-> 0,
     installed |-> NullTranslator]

\* the constructor's state; createInstance runs it when the assembler answers
Init ==
    /\ creation \in {[state |-> "none"]}
                    \cup {[state |-> "pending", data |-> d, reported |-> "none"] :
                             d \in CreateDatas}
    /\ templates = EmptyObj
    /\ partialsRef = "own"
    /\ translator = NullTranslator
    /\ renderContext = Undefined
    /\ decorators = <<>>
    /\ pending = [r \in Requests |-> 0]
    /\ theme = IdleTheme
    /\ loaded = {}
    /\ everStored = {}
    /\ shadowed = {}
    /\ settings \in SettingsSet
    /\ themeSettings \in ThemeSettingsSet
    /\ lastOut = NoCall

\* the instance has the settings and themeSettings of new Codex()
InitPlain == Init /\ settings = NoSettings /\ themeSettings = NoThemeSettings

\* the state after new Codex(settings, themeSettings, assembler)
InitConfigured == Init /\ creation.state = "none"

\* the state after new Codex()
InitNew == InitPlain /\ creation.state = "none"

\* assembler.getTranslations answers createInstance
CreateInstanceAnswered ==
    /\ creation.state = "pending"
    /\ \E error \in Errors \cup {NoError} :
       \E translations \in (IF error = NoError THEN TranslationTables
                            ELSE {NoTranslations}) :
         /\ creation' = CreateInstanceCallback(
                            [creation EXCEPT !.reported = error], error, translations)
         /\ IF creation'.state = "fulfilled"
            THEN /\ translator' = creation'.instance.translator
                 /\ renderContext' = creation'.instance.renderContext
                 /\ templates' = creation'.instance.templates
                 /\ decorators' = creation'.instance.decorators
            ELSE UNCHANGED <<translator, renderContext, templates, decorators>>
    /\ UNCHANGED <<partialsRef, pending, theme, loaded, everStored, shadowed>>
    /\ UNCHANGED <<settings, themeSettings>>
    /\ lastOut' = NoCall

----------------------------------------------------------------------------
(* Loading templates and translations *)

\* loadTemplates(path, callback): the request goes to assembler.getTemplates
LoadTemplates ==
    /\ Alive
    /\ InFlight < MaxPending
    /\ \E r \in TemplateRequests : pending' = Sent(pending, r)
    /\ UNCHANGED <<creation, templates, partialsRef, translator, renderContext,
                   decorators, theme, loaded, everStored, shadowed>>
    /\ UNCHANGED <<settings, themeSettings>>
    /\ lastOut' = NoCall

\* loadTemplates(path, callback) has called callback(passed): the assembler had
\* reported error (NoError: none) and applied the processor to the templates
\* of batch; wasLoaded are those of them an earlier loadTemplates call had
\* already been given processed
CallbackCalled(path, error, batch, passed) ==
    [op |-> "loadTemplates", path |-> path, reported |-> error,
     processed |-> DOMAIN batch, wasLoaded |-> loaded \cap DOMAIN batch,
     passed |-> passed]

\* the mutant of GetTemplatesCallback: an assembler error empties the Store
GetTemplatesCallbackClearing(path, error, batch) ==
    IF error # NoError
    THEN /\ templates' = EmptyObj
         /\ UNCHANGED <<partialsRef, loaded, everStored, shadowed>>
         /\ lastOut' = CallbackCalled(path, error, batch, error)
    ELSE /\ templates' = InsertBatch(templates, batch)
         /\ partialsRef' = "templates"
         /\ loaded' = loaded \cup {path}
         /\ everStored' = everStored \cup DOMAIN batch
         /\ shadowed' = shadowed \cup
                {p \in DOMAIN batch \cap DOMAIN templates :
                    Template(batch[p]) # templates[p]}
         /\ lastOut' = CallbackCalled(path, error, batch, NoError)

\* the mutant of GetTemplatesCallback: once loadTheme has reported a failure the
\* batches of its other loads are dropped
GetTemplatesCallbackAborting(path, error, batch) ==
    IF error # NoError
    THEN /\ UNCHANGED <<templates, partialsRef, loaded, everStored, shadowed>>
         /\ lastOut' = CallbackCalled(path, error, batch, error)
    ELSE IF theme.done \in Errors
    THEN /\ UNCHANGED <<templates, partialsRef, loaded, everStored, shadowed>>
         /\ lastOut' = CallbackCalled(path, error, batch, NoError)
    ELSE /\ templates' = InsertBatch(templates, batch)
         /\ partialsRef' = "templates"
         /\ loaded' = loaded \cup {path}
         /\ everStored' = everStored \cup DOMAIN batch
         /\ shadowed' = shadowed \cup
                {p \in DOMAIN batch \cap DOMAIN templates :
                    Template(batch[p]) # templates[p]}
         /\ lastOut' = CallbackCalled(path, error, batch, NoError)

\* the mutant of GetTemplatesCallback: handlebars.partials is not made to refer
\* to the Store
GetTemplatesCallbackNoAlias(path, error, batch) ==
    IF error # NoError
    THEN /\ UNCHANGED <<templates, partialsRef, loaded, everStored, shadowed>>
         /\ lastOut' = CallbackCalled(path, error, batch, error)
    ELSE /\ templates' = InsertBatch(templates, batch)
         /\ UNCHANGED partialsRef
         /\ loaded' = loaded \cup {path}
         /\ everStored' = everStored \cup DOMAIN batch
         /\ shadowed' = shadowed \cup
                {p \in DOMAIN batch \cap DOMAIN templates :
                    Template(batch[p]) # templates[p]}
         /\ lastOut' = CallbackCalled(path, error, batch, NoError)

\* the callback loadTemplates gives to assembler.getTemplates
GetTemplatesCallback(path, error, batch) ==
    IF error # NoError
    THEN /\ UNCHANGED <<templates, partialsRef, loaded, everStored, shadowed>>
         /\ lastOut' = CallbackCalled(path, error, batch, error)
    ELSE /\ templates' = InsertBatch(templates, batch)
         /\ partialsRef' = "templates"
         /\ loaded' = loaded \cup {path}
         /\ everStored' = everStored \cup DOMAIN batch
         /\ shadowed' = shadowed \cup
                {p \in DOMAIN batch \cap DOMAIN templates :
                    Template(batch[p]) # templates[p]}
         /\ lastOut' = CallbackCalled(path, error, batch, NoError)

\* the assembler reports an error to a direct loadTemplates call
TemplatesFailed ==
    /\ \E r \in TemplateRequests, error \in Errors :
         /\ pending[r] > 0
         /\ GetTemplatesCallback(r.arg, error, EmptyObj)
         /\ pending' = Answered(pending, r)
    /\ UNCHANGED <<creation, translator, renderContext, decorators, theme>>
    /\ UNCHANGED <<settings, themeSettings>>

\* the assembler hands a processed batch to a direct loadTemplates call
TemplatesLoaded ==
    /\ \E r \in TemplateRequests :
         /\ pending[r] > 0
         /\ \E raw \in RawBatches(r.arg) :
              GetTemplatesCallback(r.arg, NoError, TemplateProcessor(raw))
         /\ pending' = Answered(pending, r)
    /\ UNCHANGED <<creation, translator, renderContext, decorators, theme>>
    /\ UNCHANGED <<settings, themeSettings>>

\* loadTemplatesSync(templates)
LoadTemplatesSync ==
    /\ Alive
    /\ \E raw \in UNION {[S -> Contents] : S \in SUBSET Paths} :
         /\ templates' = AssignCompiled(templates, raw)
         /\ everStored' = everStored \cup DOMAIN raw
    /\ partialsRef' = "templates"
    /\ UNCHANGED <<creation, translator, renderContext, decorators, pending,
                   theme, loaded, shadowed>>
    /\ UNCHANGED <<settings, themeSettings>>
    /\ lastOut' = NoCall

\* loadTranslations(acceptLanguage, callback)
LoadTranslations ==
    /\ Alive
    /\ InFlight < MaxPending
    /\ \E r \in TranslationRequests : pending' = Sent(pending, r)
    /\ UNCHANGED <<creation, templates, partialsRef, translator, renderContext,
                   decorators, theme, loaded, everStored, shadowed>>
    /\ UNCHANGED <<settings, themeSettings>>
    /\ lastOut' = NoCall

\* the mutant of GetTranslationsCallback: the new translator is not stored
GetTranslationsCallbackKeep(acceptLanguage, error, translations) ==
    UNCHANGED translator

\* the mutant of GetTranslationsCallback: an assembler error drops the translator
GetTranslationsCallbackDropping(acceptLanguage, error, translations) ==
    IF error # NoError
    THEN translator' = NullTranslator
    ELSE translator' = TranslatorCreate(acceptLanguage, translations)

\* the callback loadTranslations gives to assembler.getTranslations
GetTranslationsCallback(acceptLanguage, error, translations) ==
    IF error # NoError
    THEN UNCHANGED translator
    ELSE translator' = TranslatorCreate(acceptLanguage, translations)

\* the assembler answers a direct loadTranslations call
TranslationsAnswered ==
    /\ \E r \in TranslationRequests :
         /\ pending[r] > 0
         /\ \E error \in Errors \cup {NoError} :
            \E translations \in (IF error = NoError THEN TranslationTables
                                 ELSE {NoTranslations}) :
              GetTranslationsCallback(r.arg, error, translations)
         /\ pending' = Answered(pending, r)
    /\ UNCHANGED <<creation, templates, partialsRef, renderContext, decorators,
                   theme, loaded, everStored, shadowed>>
    /\ UNCHANGED <<settings, themeSettings>>
    /\ lastOut' = NoCall

----------------------------------------------------------------------------
(* loadTheme *)

\* the paths arguments loadTheme may be given: a falsy value, one path, arrays
ThemePathArgs ==
    {NoPath, SinglePath("a"), PathList(<<>>), PathList(<<"b">>),
     PathList(<<"a", "b">>)}

\* if (!_.isArray(paths)) { paths = paths ? [paths] : []; }
NormalizePaths(arg) ==
    IF arg.kind = "list" THEN arg.paths
    ELSE IF arg.kind = "single" THEN <<arg.path>>
    ELSE <<>>

\* Async.parallel / Async.map: the final callback is called once, with the first
\* error reported, or with no error when every sub-operation has completed.
\* cb is what the final callback was called with so far ("none": not yet)
Aggregate(cb, error, allDone) ==
    IF cb # "none" THEN cb
    ELSE IF error # NoError THEN error
    ELSE IF allDone THEN NoError
    ELSE "none"

\* the mutant of Invokes: every error is passed on to the final callback
InvokesOnEveryError(cb, error, allDone) ==
    IF error # NoError \/ allDone THEN 1 ELSE 0

\* how often (0 or 1) the completion of a sub-operation makes Async.parallel /
\* Async.map call the final callback: once, if it was not called before and
\* the completion reports an error or is the last one
Invokes(cb, error, allDone) ==
    IF cb = "none" /\ (error # NoError \/ allDone) THEN 1 ELSE 0

\* every assembler request of the loadTheme call has been answered
ThemeSettled ==
    /\ theme.trans # "pending"
    /\ \A i \in 1..Len(theme.tpl) : theme.tpl[i] # "pending"

\* loadTheme(paths, acceptLanguage, done): both tasks start, every path's load starts
LoadTheme ==
    /\ Alive
    /\ ThemeSettled
    /\ \E arg \in ThemePathArgs, acceptLanguage \in Languages :
         LET paths == NormalizePaths(arg) IN
         theme' = [active |-> TRUE,
                   paths |-> paths,
                   acceptLanguage |-> acceptLanguage,
                   trans |-> "pending",
                   tpl |-> [i \in 1..Len(paths) |-> "pending"],
                   mapCb |-> Aggregate("none", NoError, paths = <<>>),
                   done |-> "none",
                   calls |-> 0,
                   installed |-> NullTranslator]
    /\ UNCHANGED <<creation, templates, partialsRef, translator, renderContext,
                   decorators, pending, loaded, everStored, shadowed>>
    /\ UNCHANGED <<settings, themeSettings>>
    /\ lastOut' = NoCall

\* the assembler answers the translation branch of loadTheme
ThemeTranslationsAnswered ==
    /\ theme.trans = "pending"
    /\ \E error \in Errors \cup {NoError} :
       \E translations \in (IF error = NoError THEN TranslationTables
                            ELSE {NoTranslations}) :
         /\ GetTranslationsCallback(theme.acceptLanguage, error, translations)
         /\ theme' = [theme EXCEPT
                        !.trans = IF error = NoError THEN "ok" ELSE "err",
                        !.installed = IF error = NoError THEN translator' ELSE @,
                        !.done = Aggregate(@, error, theme.mapCb = NoError),
                        !.calls = @ + Invokes(theme.done, error,
                                              theme.mapCb = NoError)]
    /\ UNCHANGED <<creation, templates, partialsRef, renderContext, decorators,
                   pending, loaded, everStored, shadowed>>
    /\ UNCHANGED <<settings, themeSettings>>
    /\ lastOut' = NoCall

\* what loadTheme's record becomes when the load of paths[i] calls back
ThemeAfterTemplates(i, error) ==
    LET tpl2 == [theme.tpl EXCEPT ![i] = IF error = NoError THEN "ok" ELSE "err"]
        mapCb2 == Aggregate(theme.mapCb, error,
                            \A j \in 1..Len(tpl2) : tpl2[j] = "ok")
        done2 == IF theme.mapCb = "none" /\ mapCb2 # "none"
                 THEN Aggregate(theme.done, mapCb2, theme.trans = "ok")
                 ELSE theme.done
        calls2 == IF theme.mapCb = "none" /\ mapCb2 # "none"
                  THEN theme.calls + Invokes(theme.done, mapCb2, theme.trans = "ok")
                  ELSE theme.calls
    IN  [theme EXCEPT !.tpl = tpl2, !.mapCb = mapCb2, !.done = done2,
                      !.calls = calls2]

\* the assembler reports an error to the load of one path of loadTheme
ThemeTemplatesFailed ==
    /\ \E i \in 1..Len(theme.tpl), error \in Errors :
         /\ theme.tpl[i] = "pending"
         /\ GetTemplatesCallback(theme.paths[i], error, EmptyObj)
         /\ theme' = ThemeAfterTemplates(i, error)
    /\ UNCHANGED <<creation, translator, renderContext, decorators, pending>>
    /\ UNCHANGED <<settings, themeSettings>>

\* the assembler hands a processed batch to the load of one path of loadTheme
ThemeTemplatesLoaded ==
    /\ \E i \in 1..Len(theme.tpl) :
         /\ theme.tpl[i] = "pending"
         /\ \E raw \in RawBatches(theme.paths[i]) :
              GetTemplatesCallback(theme.paths[i], NoError, TemplateProcessor(raw))
         /\ theme' = ThemeAfterTemplates(i, NoError)
    /\ UNCHANGED <<creation, translator, renderContext, decorators, pending>>
    /\ UNCHANGED <<settings, themeSettings>>

----------------------------------------------------------------------------
(* Decorators and rendering *)

\* the mutant of AddDecorator: the decorator is put in front
AddDecoratorInFront ==
    /\ Alive
    /\ Len(decorators) < MaxDecorators
    /\ \E d \in Decorators : decorators' = <<d>> \o decorators
    /\ UNCHANGED <<creation, templates, partialsRef, translator, renderContext,
                   pending, theme, loaded, everStored, shadowed>>
    /\ UNCHANGED <<settings, themeSettings>>
    /\ lastOut' = NoCall

\* addDecorator(decorator)
AddDecorator ==
    /\ Alive
    /\ Len(decorators) < MaxDecorators
    /\ \E d \in Decorators : decorators' = Append(decorators, d)
    /\ UNCHANGED <<creation, templates, partialsRef, translator, renderContext,
                   pending, theme, loaded, everStored, shadowed>>
    /\ UNCHANGED <<settings, themeSettings>>
    /\ lastOut' = NoCall

\* a call of render(path, context)
DoRender ==
    /\ Alive
    /\ \E path \in Paths, context \in Contexts :
         lastOut' = [op |-> "render", path |-> path, context |-> context,
                     wasStored |-> path \in everStored,
                     wasLoaded |-> path \in loaded,
                     value |-> Render(path, context).value]
    /\ UNCHANGED <<creation, templates, partialsRef, translator, renderContext,
                   decorators, pending, theme, loaded, everStored, shadowed,
                   settings, themeSettings>>

\* the data renderTheme may be given
ThemeDatas == [remote : BOOLEAN, context : Contexts, remote_data : RemoteDatas]

\* a call of renderTheme(templatePath, data)
DoRenderTheme ==
    /\ Alive
    /\ \E templatePath \in TemplatePaths, data \in ThemeDatas :
         lastOut' = [op |-> "renderTheme", templatePath |-> templatePath,
                     data |-> data,
                     value |-> RenderTheme(templatePath, data)]
    /\ UNCHANGED <<creation, templates, partialsRef, translator, renderContext,
                   decorators, pending, theme, loaded, everStored, shadowed,
                   settings, themeSettings>>

----------------------------------------------------------------------------

\* a call of cdnify(path)
DoCdnify ==
    /\ Alive
    /\ \E arg \in CdnArgs :
         lastOut' = [op |-> "cdnify", path |-> arg, value |-> Cdnify(arg)]
    /\ UNCHANGED <<creation, templates, partialsRef, translator, renderContext,
                   decorators, pending, theme, loaded, everStored, shadowed,
                   settings, themeSettings>>

\* the location identifiers a template may name, and stored block contents
LocationIds == {"top", "missing"}
LocationContent == [tag |-> "string", str |-> "<b>"]
\* the string ''
EmptyString == [tag |-> "string", str |-> ""]
\* an object that is not undefined
Obj(fields) == [tag |-> "object", fields |-> fields]

\* paper.context and paper.content as the helper may find them.  Codex sets
\* neither (createInstance sets renderContext); they are fields the code that
\* builds the instance assigns, as the Paper variant of createInstance hands
\* data.context to the constructor
PaperContexts ==
    {Undefined, Obj(EmptyObj), Obj("locations" :> EmptyObj),
     Obj("locations" :> ("top" :> LocationContent))}
PaperContents == {Undefined, Obj("locations" :> ("top" :> LocationContent))}
Papers == [context : PaperContexts, content : PaperContents]

\* (!paper.context) || (!paper.context.locations)
NoLocations(paper) ==
    paper.context = Undefined \/ "locations" \notin DOMAIN paper.context.fields

\* object[key]: undefined for a key the object does not have
Lookup(object, key) ==
    IF key \in DOMAIN object THEN object[key] ELSE Undefined

\* the location helper that takes the identifier as params.hash.name: the
\* content is read from paper.content, which throws a TypeError when
\* paper.content is undefined
LocationByName(paper, locationId) ==
    IF NoLocations(paper) THEN EmptyString
    ELSE IF Lookup(paper.context.fields["locations"], locationId) # Undefined
         THEN IF paper.content = Undefined THEN Thrown
              ELSE SafeString(Lookup(paper.content.fields["locations"], locationId))
         ELSE SafeString(EmptyString)

\* the location helper that takes the identifier as its argument:
\* new SafeString(...) is an object, so || '' never applies
Location(paper, locationId) ==
    IF NoLocations(paper) THEN EmptyString
    ELSE SafeString(Lookup(paper.context.fields["locations"], locationId))

\* a template calls the location helper
DoLocation ==
    /\ Alive
    /\ \E paper \in Papers, locationId \in LocationIds :
         \/ lastOut' = [op |-> "location", helper |-> "argument", paper |-> paper,
                        locationId |-> locationId,
                        value |-> Location(paper, locationId)]
         \/ lastOut' = [op |-> "location", helper |-> "name", paper |-> paper,
                        locationId |-> locationId,
                        value |-> LocationByName(paper, locationId)]
    /\ UNCHANGED <<creation, templates, partialsRef, translator, renderContext,
                   decorators, pending, theme, loaded, everStored, shadowed,
                   settings, themeSettings>>

\* the loading machine: direct loads, their callbacks, and renders between them
NextLoad ==
    \/ LoadTemplates
    \/ TemplatesFailed
    \/ TemplatesLoaded
    \/ LoadTemplatesSync
    \/ LoadTranslations
    \/ TranslationsAnswered
    \/ DoRender

\* loadTheme, the callbacks of its branches, synchronous loads and renders
\* between them
NextTheme ==
    \/ LoadTheme
    \/ ThemeTranslationsAnswered
    \/ ThemeTemplatesFailed
    \/ ThemeTemplatesLoaded
    \/ LoadTemplatesSync
    \/ DoRender

\* the rendering machine: construction, synchronous loads, decorators, renders
NextRender ==
    \/ CreateInstanceAnswered
    \/ LoadTemplatesSync
    \/ AddDecorator
    \/ DoRender
    \/ DoRenderTheme

\* the helpers of a configured instance
NextHelpers ==
    \/ DoCdnify
    \/ DoLocation

Next == NextLoad \/ NextTheme \/ NextRender \/ NextHelpers

\* the whole program
Spec == Init /\ [][Next]_vars

\* an instance built by the constructor, and its loads
SpecLoad == InitNew /\ [][NextLoad]_vars

\* an instance built by the constructor, and its loadTheme calls
SpecTheme == InitNew /\ [][NextTheme]_vars

\* loadTheme calls alone, every request the assembler was given being answered
NextThemeCalls ==
    \/ LoadTheme
    \/ ThemeTranslationsAnswered
    \/ ThemeTemplatesFailed
    \/ ThemeTemplatesLoaded

SpecThemeAnswered ==
    /\ InitNew
    /\ [][NextThemeCalls]_vars
    /\ WF_vars(ThemeTranslationsAnswered)
    /\ WF_vars(ThemeTemplatesFailed \/ ThemeTemplatesLoaded)

\* an instance built by the constructor, its loads and its decorators
NextDecorators ==
    \/ NextLoad
    \/ AddDecorator

SpecDecorators == InitNew /\ [][NextDecorators]_vars

\* an instance built by the constructor or by createInstance, and its renders
SpecRender == InitPlain /\ [][NextRender]_vars

\* a configured instance and the calls of its helpers
SpecHelpers == InitConfigured /\ [][NextHelpers]_vars

----------------------------------------------------------------------------
(* Properties *)

\* the keys render itself sets on the context
Injected == {"template", "locale_name"}

\* C1: render(p, ctx) throws for a path p that never had a Store entry, and
\* returns a string once a loadTemplates(p) call has completed without error;
\* in every reachable state, for every path and context, and for the render
\* call that has just returned.
C1_RenderNeedsLoad ==
    /\ \A p \in Paths, c \in Contexts :
         /\ p \notin everStored => Render(p, c).value = Thrown
         /\ p \in loaded => Render(p, c).value.kind = "string"
    /\ lastOut.op = "render" =>
         /\ ~lastOut.wasStored => lastOut.value = Thrown
         /\ lastOut.wasLoaded => lastOut.value.kind = "string"

\* a render of "a" has just returned a string after loadTemplates("a") completed,
\* while "b", never loaded, would throw
C1_Witness ==
    /\ lastOut.op = "render"
    /\ lastOut.path = "a"
    /\ lastOut.wasLoaded
    /\ lastOut.value.kind = "string"
    /\ "b" \notin everStored
    /\ Render("b", EmptyObj).value = Thrown

\* a step that runs the callback of a loadTemplates call, direct or of loadTheme
LoadTemplatesCallbackStep ==
    \/ TemplatesLoaded
    \/ TemplatesFailed
    \/ ThemeTemplatesLoaded
    \/ ThemeTemplatesFailed

\* C2: first load wins: whatever the order in which the assembler answers the
\* loadTemplates calls in flight, the callback of a loadTemplates call leaves
\* every Store entry that exists when its batch is processed as it is.
C2_FirstLoadWins ==
    [][LoadTemplatesCallbackStep =>
         \A p \in DOMAIN templates :
            p \in DOMAIN templates' /\ templates'[p] = templates[p]]_vars

\* both paths were loaded by loadTemplates calls, and the batch of one of them
\* carried another template for "a" than the stored one, which it left in place
C2_Witness ==
    /\ "a" \in shadowed
    /\ loaded = Paths
    /\ "a" \in DOMAIN templates

\* C3: a Template Store entry, once present, is never removed and never
\* replaced by any operation, loadTemplatesSync included.
C3_EntriesNeverReplaced ==
    [][\A p \in DOMAIN templates :
          p \in DOMAIN templates' /\ templates'[p] = templates[p]]_vars

\* C4: render returns the compiled template's output followed by what the
\* decorators append, in the order they were registered:
\* dn(...d2(d1(base))...).
C4_DecoratorsInOrder ==
    (lastOut.op = "render" /\ lastOut.value.kind = "string") =>
        LET out == lastOut.value.str
            base == Invoke(templates[lastOut.path],
                           InjectContext(lastOut.path, lastOut.context))
        IN  /\ Len(out) = Len(base) + Len(decorators)
            /\ SubSeq(out, 1, Len(base)) = base
            /\ \A i \in 1..Len(decorators) :
                 out[Len(base) + i] = [lit |-> decorators[i]]

\* a render has returned with the decorators A then B registered
C4_Witness ==
    /\ lastOut.op = "render"
    /\ lastOut.value.kind = "string"
    /\ decorators = <<"A", "B">>

\* C5: renderTheme with no template path returns exactly
\* {data: data.remote_data}, whether or not data.remote is set.
C5_NoPathDataOnly ==
    (lastOut.op = "renderTheme" /\ lastOut.templatePath = NoPath) =>
        lastOut.value = [kind |-> "object",
                         obj |-> [data |-> lastOut.data.remote_data]]

\* the context a renderTheme call renders with, stated key by key
C6_Context(data) ==
    IF data.remote
    THEN [k \in DOMAIN data.context \cup DOMAIN data.remote_data |->
            IF k \in DOMAIN data.remote_data THEN data.remote_data[k]
            ELSE data.context[k]]
    ELSE data.context

\* the elements of a sequence
C6_Range(seq) == {seq[i] : i \in 1..Len(seq)}

\* C6: renderTheme with a path that returns: with data.remote the result is
\* {data: data.remote_data, content: html}, otherwise html itself; html is the
\* rendered string for one path and, for a list, a mapping of exactly the
\* listed paths, each to its rendered string.
C6_ResultShape ==
    (/\ lastOut.op = "renderTheme"
     /\ lastOut.templatePath.kind # "none"
     /\ lastOut.value.kind # "throw") =>
        LET tp == lastOut.templatePath
            data == lastOut.data
            v == lastOut.value
            html == IF data.remote THEN v.obj.content ELSE v
        IN  /\ data.remote =>
                /\ v.kind = "object"
                /\ DOMAIN v.obj = {"data", "content"}
                /\ v.obj.data = data.remote_data
            /\ tp.kind = "single" =>
                /\ html.kind = "string"
                /\ html = Render(tp.path, C6_Context(data)).value
            /\ tp.kind = "list" =>
                /\ html.kind = "mapping"
                /\ DOMAIN html.map = C6_Range(tp.paths)
                /\ \A p \in DOMAIN html.map :
                     html.map[p] = Render(p, C6_Context(data)).value

\* a remote renderTheme of the list a, b has returned {data, content: {a, b}}
C6_Witness ==
    /\ lastOut.op = "renderTheme"
    /\ lastOut.templatePath = PathList(<<"a", "b">>)
    /\ lastOut.data.remote
    /\ lastOut.value.kind = "object"
    /\ DOMAIN lastOut.value.obj.content.map = {"a", "b"}

\* the contexts the templates of a renderTheme result were invoked with
C7_UsedContexts(v) ==
    LET html == IF v.kind = "object" THEN v.obj.content ELSE v
    IN  IF html.kind = "string" THEN {html.str[1].ctx}
        ELSE {html.map[p].str[1].ctx : p \in DOMAIN html.map}

\* C7: with data.remote every render of a renderTheme call gets data.context
\* merged with data.remote_data, remote_data winning on the keys of both;
\* without data.remote it gets data.context as it is (apart from the keys
\* render itself sets).
C7_RemoteDataWins ==
    (/\ lastOut.op = "renderTheme"
     /\ lastOut.templatePath.kind # "none"
     /\ lastOut.value.kind # "throw") =>
        LET data == lastOut.data
            own == DOMAIN data.context \ Injected
            remote == IF data.remote THEN DOMAIN data.remote_data \ Injected
                      ELSE {}
        IN  \A used \in C7_UsedContexts(lastOut.value) :
              /\ DOMAIN used \ Injected = own \cup remote
              /\ \A k \in remote : used[k] = data.remote_data[k]
              /\ \A k \in own \ remote : used[k] = data.context[k]

\* a remote renderTheme of one path has returned, with a key in both the
\* context and the remote data
C7_Witness ==
    /\ lastOut.op = "renderTheme"
    /\ lastOut.templatePath.kind = "single"
    /\ lastOut.data.remote
    /\ lastOut.value.kind = "object"
    /\ DOMAIN lastOut.data.context \cap DOMAIN lastOut.data.remote_data # {}

\* C8: in loadTheme(["a", "b"]), whatever the order of the answers: once the
\* load of "b" has failed the call has reported failure, and once the load of
\* "a" has succeeded its entry is in the Store and render("a", ctx) returns a
\* string, the failure of "b" notwithstanding.
C8_FailedThemeKeepsLoads ==
    theme.paths = <<"a", "b">> =>
        /\ theme.tpl[2] = "err" => theme.done \in Errors
        /\ theme.tpl[1] = "ok" =>
             /\ "a" \in DOMAIN templates
             /\ \A c \in Contexts : Render("a", c).value.kind = "string"
             /\ (lastOut.op = "render" /\ lastOut.path = "a") =>
                    lastOut.value.kind = "string"

\* the load of "a" succeeded, that of "b" failed, loadTheme reported the
\* failure, and a render of "a" has just returned a string
C8_Witness ==
    /\ theme.paths = <<"a", "b">>
    /\ theme.tpl = <<"ok", "err">>
    /\ theme.done \in Errors
    /\ lastOut.op = "render"
    /\ lastOut.path = "a"
    /\ lastOut.value.kind = "string"

\* C9: when loadTheme has reported success, its translation branch has replaced
\* the Translator by one built from the given acceptLanguage and the load of
\* every path has completed without error; and when the translation load or
\* the load of any path has failed, loadTheme has reported failure.
C9_ThemeCompletion ==
    /\ theme.done = NoError =>
         /\ theme.trans = "ok"
         /\ theme.installed # NullTranslator
         /\ theme.installed.acceptLanguage = theme.acceptLanguage
         /\ translator = theme.installed
         /\ \A i \in 1..Len(theme.paths) :
              theme.tpl[i] = "ok" /\ theme.paths[i] \in loaded
    /\ (theme.trans = "err" \/ \E i \in 1..Len(theme.tpl) : theme.tpl[i] = "err")
         => theme.done \in Errors

\* a loadTheme of two paths has reported success
C9_Witness ==
    /\ theme.done = NoError
    /\ Len(theme.paths) = 2

\* C10: a createInstance whose assembler reported an error is rejected with
\* that error and never fulfilled; one whose assembler reported none is
\* fulfilled with an instance that has a translator built from
\* data.acceptLanguage, data.context as renderContext, an empty Template Store
\* and no decorators.
C10_CreateInstanceSettles ==
    creation.state \in {"rejected", "fulfilled"} =>
        /\ creation.reported # NoError =>
             /\ creation.state = "rejected"
             /\ creation.error = creation.reported
        /\ creation.reported = NoError =>
             /\ creation.state = "fulfilled"
             /\ creation.instance.translator # NullTranslator
             /\ creation.instance.translator.acceptLanguage
                    = creation.data.acceptLanguage
             /\ creation.instance.translator.translations = creation.translations
             /\ creation.instance.renderContext = creation.data.context
             /\ creation.instance.templates = EmptyObj
             /\ creation.instance.decorators = <<>>

\* the assembler reported the error e2 and the promise is rejected with it
C10_Witness ==
    /\ creation.state = "rejected"
    /\ creation.reported = "e2"
    /\ creation.error = "e2"

\* path starts with the tokens of prefix
BeginsWith(path, prefix) ==
    Len(path) >= Len(prefix) /\ SubSeq(path, 1, Len(prefix)) = prefix

\* the scheme of a path scheme:rest, and rest: the text after the scheme's
\* colon with one leading slash removed
FirstColon(path) == CHOOSE i \in Colons(path) : \A j \in Colons(path) : i <= j
SchemeOf(path) == SubSeq(path, 1, FirstColon(path) - 1)
RestOf(path) == DropSlash(Slice(path, FirstColon(path)))

\* a path with a custom scheme: it holds a colon and is no http://, https://
\* or // url
HasScheme(path) ==
    /\ Colons(path) # {}
    /\ ~BeginsWith(path, <<"http", ":", "/", "/">>)
    /\ ~BeginsWith(path, <<"https", ":", "/", "/">>)
    /\ ~BeginsWith(path, <<"/", "/">>)

\* C11: the cdnify call that has just returned, for a path scheme:rest, returned
\* cdnUrl/content/rest for the scheme webdav, for a scheme that is an endpoint of
\* themeSettings.cdn the endpoint's url/rest when a cdn url is configured and
\* /assets/cdn/scheme/rest when none is, and for any other scheme rest with a
\* leading slash.
C11_SchemePaths ==
    (lastOut.op = "cdnify" /\ HasScheme(lastOut.path.string)) =>
        LET scheme == SchemeOf(lastOut.path.string)
            rest == RestOf(lastOut.path.string)
            cdnUrl == settings.cdn_url
        IN  lastOut.value =
              IF scheme = <<"webdav">>
              THEN cdnUrl \o <<"/", "content", "/">> \o rest
              ELSE IF /\ "cdn" \in DOMAIN themeSettings
                      /\ scheme \in DOMAIN themeSettings["cdn"]
                   THEN IF cdnUrl # <<>>
                        THEN themeSettings["cdn"][scheme] \o <<"/">> \o rest
                        ELSE <<"/", "assets", "/", "cdn", "/">> \o scheme
                                 \o <<"/">> \o rest
                   ELSE IF BeginsWith(rest, <<"/">>) THEN rest
                        ELSE <<"/">> \o rest

\* C12: the cdnify call that has just returned, for a path without a scheme,
\* returned '' for the empty path, the path itself for an http://, https:// or
\* // url, and otherwise the path with a leading slash: as it is when no theme
\* version id is configured, else without its leading /assets/ and behind
\* cdnUrl/stencil/versionId/e/sessionId/ with a session id and behind
\* cdnUrl/stencil/versionId/ without one.
C12_PlainPaths ==
    (lastOut.op = "cdnify" /\ ~HasScheme(lastOut.path.string)) =>
        LET path == lastOut.path.string
            cdnUrl == settings.cdn_url
            versionId == settings.theme_version_id
            sessionId == settings.theme_session_id
            slashed == IF BeginsWith(path, <<"/">>) THEN path ELSE <<"/">> \o path
            asset == IF BeginsWith(slashed, <<"/", "assets", "/">>)
                     THEN SubSeq(slashed, 4, Len(slashed))
                     ELSE slashed
        IN  lastOut.value =
              IF path = <<>> THEN <<>>
              ELSE IF \/ BeginsWith(path, <<"http", ":", "/", "/">>)
                      \/ BeginsWith(path, <<"https", ":", "/", "/">>)
                      \/ BeginsWith(path, <<"/", "/">>)
                   THEN path
              ELSE IF versionId = <<>> THEN slashed
              ELSE IF sessionId # <<>>
                   THEN cdnUrl \o <<"/", "stencil", "/">> \o versionId
                            \o <<"/", "e", "/">> \o sessionId \o <<"/">> \o asset
                   ELSE cdnUrl \o <<"/", "stencil", "/">> \o versionId
                            \o <<"/">> \o asset

\* /assets/img.png, held by a SafeString, has just been cdnified with a cdn
\* url, a version id and a session id configured
C12_Witness ==
    /\ lastOut.op = "cdnify"
    /\ lastOut.path = SafeString(<<"/", "assets", "/", "img.png">>)
    /\ settings.theme_version_id = <<"v1">>
    /\ settings.theme_session_id = <<"s1">>
    /\ lastOut.value = CdnUrl \o <<"/", "stencil", "/", "v1", "/", "e", "/", "s1",
                                   "/", "img.png">>


\* C13: the location helper call that has just returned gave the empty string
\* when paper.context holds no location mapping or the mapping lacks the
\* identifier, and the mapped content as a SafeString otherwise.
C13_LocationOrEmpty ==
    lastOut.op = "location" =>
        lastOut.value =
          IF \/ NoLocations(lastOut.paper)
             \/ lastOut.locationId
                    \notin DOMAIN lastOut.paper.context.fields["locations"]
          THEN EmptyString
          ELSE SafeString(
                   lastOut.paper.context.fields["locations"][lastOut.locationId])

\* C14: the assembler applied the precompiling processor, for the loadTemplates
\* call whose callback has just run, to no path an earlier loadTemplates call
\* had already been given processed.
C14_ProcessedOnce ==
    lastOut.op = "loadTemplates" => lastOut.wasLoaded = {}

\* C15: a step in which the callback of loadTemplates runs for an error the
\* assembler reported passes exactly that error on and leaves the Template
\* Store and the partials view as they were.
C15_FailedLoadChangesNothing ==
    [][(lastOut'.op = "loadTemplates" /\ lastOut'.reported # NoError) =>
          /\ lastOut'.passed = lastOut'.reported
          /\ templates' = templates
          /\ Partials' = Partials]_vars

\* the callback of a loadTemplates call has just been given the error e1 the
\* assembler reported, with both paths still in the Store and among the partials
C15_Witness ==
    /\ lastOut.op = "loadTemplates"
    /\ lastOut.reported = "e1"
    /\ lastOut.passed = "e1"
    /\ DOMAIN templates = Paths
    /\ Partials = templates

\* C16: the translation load of loadTheme leaves the Template Store and the
\* partials view as they were, its template loads leave the Translator as it
\* was, the Translator changes only in the step in which a translation load
\* succeeds and not in one in which it fails, and no step changes settings or
\* themeSettings.
C16_DisjointState ==
    [][/\ ThemeTranslationsAnswered =>
            (templates' = templates /\ Partials' = Partials)
       /\ (ThemeTemplatesLoaded \/ ThemeTemplatesFailed) => translator' = translator
       /\ translator' # translator =>
            (theme.trans = "pending" /\ theme'.trans = "ok")
       /\ (theme.trans = "pending" /\ theme'.trans = "err") =>
            translator' = translator
       /\ settings' = settings
       /\ themeSettings' = themeSettings]_vars

\* the translation load of a loadTheme call has failed and the Translator of an
\* earlier call is still in place, while the template load of the call inserted
\* its path
C16_Witness ==
    /\ theme.trans = "err"
    /\ translator # NullTranslator
    /\ theme.paths = <<"b">>
    /\ theme.tpl = <<"ok">>
    /\ "b" \in DOMAIN templates

\* C17: the first failure of a template load of loadTheme is what loadTheme
\* reports, in that very step; and once loadTheme has reported a failure, the
\* answer to a load still pending takes effect as ever: a template load that
\* succeeds inserts its batch and completes, a translation load that succeeds
\* replaces the Translator, and the reported failure stays as it is.
C17_SiblingsNotAborted ==
    [][/\ ( /\ theme.done = "none"
            /\ lastOut'.op = "loadTemplates"
            /\ lastOut'.reported \in Errors ) => theme'.done = lastOut'.reported
       /\ theme.done \in Errors =>
            /\ (lastOut'.op = "loadTemplates" /\ lastOut'.reported = NoError) =>
                  /\ lastOut'.processed \subseteq DOMAIN templates'
                  /\ lastOut'.path \in loaded'
                  /\ theme'.done = theme.done
            /\ (theme.trans = "pending" /\ theme'.trans = "ok") =>
                  /\ translator' # NullTranslator
                  /\ translator'.acceptLanguage = theme.acceptLanguage
                  /\ theme'.done = theme.done]_vars

\* in loadTheme(["a", "b"]) the load of "b" failed and loadTheme reported it
\* while the load of "a" and the translation load were pending; the load of
\* "a" has just completed and "a", absent before, is in the Store
C17_Witness ==
    /\ theme.paths = <<"a", "b">>
    /\ theme.tpl = <<"ok", "err">>
    /\ theme.trans = "pending"
    /\ theme.done \in Errors
    /\ lastOut.op = "loadTemplates"
    /\ lastOut.path = "a"
    /\ lastOut.reported = NoError
    /\ everStored = lastOut.processed
    /\ "a" \in DOMAIN templates

\* C18: the done callback of a loadTheme call is never invoked twice, and once
\* a call has been made it is eventually invoked, the assembler answering every
\* request it was given.
C18_DoneExactlyOnce ==
    /\ [](theme.calls <= 1)
    /\ [](theme.active => <>(theme.calls = 1))

\* both the translation load and a template load of a loadTheme call have
\* failed, every request is answered, and done was invoked once
C18_Witness ==
    /\ theme.trans = "err"
    /\ theme.tpl = <<"ok", "err">>
    /\ theme.calls = 1

\* C19: every step leaves the decorator sequence a prefix of what it becomes:
\* addDecorator adds one decorator at the end, and no other operation, render
\* and the loads among them, changes the sequence.
C19_DecoratorsAppendOnly ==
    [][/\ Len(decorators) <= Len(decorators')
       /\ SubSeq(decorators', 1, Len(decorators)) = decorators
       /\ AddDecorator => Len(decorators') = Len(decorators) + 1
       /\ ~AddDecorator => decorators' = decorators]_vars

\* the same decorator was added twice and is held twice, a loadTemplates call
\* has completed since and a render has just returned
C19_Witness ==
    /\ decorators = <<"A", "A">>
    /\ loaded # {}
    /\ lastOut.op = "render"

\* C20: in every reachable state the partials view holds exactly the entries
\* of the Template Store: after construction, after every loadTemplates call
\* that completed, with or without error, and after every loadTemplatesSync.
C20_PartialsAreTheStore == Partials = templates

\* a loadTemplates call has just completed without error as the first load of
\* the instance, and what it inserted is among the partials
C20_Witness ==
    /\ lastOut.op = "loadTemplates"
    /\ lastOut.reported = NoError
    /\ everStored = lastOut.processed
    /\ DOMAIN Partials = lastOut.processed

====
